---- MODULE Spec2Model ----
(***************************************************************************)
(* Model of examples/nushell.rs: a logos-derived tokenizer for a shell-like *)
(* syntax (enum Token), the Token -> Value wrapper parse_value, and the    *)
(* driver loop of main, which prints Values until end-of-input or until    *)
(* the first lexical error, for which it renders one ariadne report.       *)
(*                                                                         *)
(* A source text is a sequence of one-character strings; byte offsets are  *)
(* 0-based, so the byte at offset o of s is s[o+1].  Only ASCII sources    *)
(* are modelled (one byte per character).                                  *)
(***************************************************************************)
EXTENDS Integers, Sequences, FiniteSets, TLC

VARIABLES src, lexer, pc, printed, spans, diag, pulls, lexOut, run, firstRun

vars == <<src, lexer, pc, printed, spans, diag, pulls, lexOut, run, firstRun>>

(***************************************************************************)
(* Bounds of the model.                                                    *)
(***************************************************************************)
MaxLen == 3
MaxRuns == 2

(***************************************************************************)
(* Characters.                                                             *)
(***************************************************************************)
DQ == "\""
BS == "\\"
SQ == "'"
\* The backtick byte (written as a name: the character cannot appear in a string here).
BT == "backtick"
LF == "\n"
EOF == "<eof>"

Digits == {"0", "1", "2", "3", "4", "5", "6", "7", "8", "9"}
NonZeroDigits == Digits \ {"0"}

Alphabet == {DQ, BS, SQ, BT, "-", "0", "1", ".", "e", " ", "\t", LF, "@"}

At(s, o) == IF o >= 0 /\ o < Len(s) THEN s[o + 1] ELSE EOF

Slice(s, a, b) == SubSeq(s, a + 1, b)

\* End of the maximal run of bytes of class starting at offset o.
RECURSIVE RunEnd(_, _, _)
RunEnd(s, o, class) ==
    IF At(s, o) \in class THEN RunEnd(s, o + 1, class) ELSE o

NoMatch == 0 - 1

(***************************************************************************)
(* The patterns of enum Token.  Each operator gives the end offset of the  *)
(* longest match of its regex starting at offset o, or NoMatch.            *)
(***************************************************************************)
\* The skip class with the tab left out.
SkipClass_noTab == {" ", "\r", "\f"}

\* #[logos(skip r"[ \t\r\f]+")]
SkipClass == {" ", "\t", "\r", "\f"}

SkipMatch(s, o) ==
    LET e == RunEnd(s, o, SkipClass) IN IF e > o THEN e ELSE NoMatch

\* r#""([^"\\]|\\["\\bnfrt])*""#
\* The escape class with the escaped quote left out.
Escapes_noQuote == {BS, "b", "n", "f", "r", "t"}

Escapes == {DQ, BS, "b", "n", "f", "r", "t"}

RECURSIVE StringBodyEnd(_, _)
StringBodyEnd(s, o) ==
    LET c == At(s, o) IN
    IF c = EOF \/ c = DQ THEN o
    ELSE IF c = BS
         THEN IF At(s, o + 1) \in Escapes THEN StringBodyEnd(s, o + 2) ELSE o
         ELSE StringBodyEnd(s, o + 1)

StringMatch(s, o) ==
    IF At(s, o) # DQ THEN NoMatch
    ELSE LET e == StringBodyEnd(s, o + 1) IN
         IF At(s, e) = DQ THEN e + 1 ELSE NoMatch

\* End of the run [^q]* starting at offset o.
RECURSIVE UntilEnd(_, _, _)
UntilEnd(s, o, q) ==
    IF At(s, o) = EOF \/ At(s, o) = q THEN o ELSE UntilEnd(s, o + 1, q)

\* r#"'[^']*'"#
SingleQuotedMatch(s, o) ==
    IF At(s, o) # SQ THEN NoMatch
    ELSE LET e == UntilEnd(s, o + 1, SQ) IN
         IF At(s, e) = SQ THEN e + 1 ELSE NoMatch

\* BareWord: backtick, [^backtick]*, backtick
BareWordMatch(s, o) ==
    IF At(s, o) # BT THEN NoMatch
    ELSE LET e == UntilEnd(s, o + 1, BT) IN
         IF At(s, e) = BT THEN e + 1 ELSE NoMatch

\* r"-?(?:0|[1-9]\d*)"
IntMatch(s, o) ==
    LET p == IF At(s, o) = "-" THEN o + 1 ELSE o IN
    IF At(s, p) = "0" THEN p + 1
    ELSE IF At(s, p) \in NonZeroDigits THEN RunEnd(s, p + 1, Digits)
    ELSE NoMatch

\* r"-?(?:0|[1-9]\d*)(?:\.\d+)?(?:[eE][+-]?\d+)?"
FracEnd(s, o) ==
    IF At(s, o) = "." /\ At(s, o + 1) \in Digits
    THEN RunEnd(s, o + 2, Digits) ELSE o

ExpEnd(s, o) ==
    IF At(s, o) \in {"e", "E"}
    THEN LET q == IF At(s, o + 1) \in {"+", "-"} THEN o + 2 ELSE o + 1 IN
         IF At(s, q) \in Digits THEN RunEnd(s, q + 1, Digits) ELSE o
    ELSE o

FloatMatch(s, o) ==
    LET e == IntMatch(s, o) IN
    IF e = NoMatch THEN NoMatch ELSE ExpEnd(s, FracEnd(s, e))

\* r"\n"
NewlineMatch(s, o) == IF At(s, o) = LF THEN o + 1 ELSE NoMatch

(***************************************************************************)
(* Pattern priorities: the explicit priority = ... attributes; Float and   *)
(* Newline carry none and get the derive macro's computed priority, which  *)
(* for Float is that of its weakest required part, the class [1-9].        *)
(***************************************************************************)
StringPriority == 20
SingleQuotedPriority == 20
BareWordPriority == 20
IntPriority == 3
FloatPriority == 1
NewlinePriority == 2

(***************************************************************************)
(* The callbacks of the patterns.  An i64 is kept as a sign and a decimal  *)
(* magnitude without leading zeros, since it exceeds 32-bit model         *)
(* integers; str::parse::<i64> accumulates digit by digit with checked     *)
(* arithmetic and fails as soon as the accumulator leaves the i64 range.   *)
(***************************************************************************)
DigitVal(c) ==
    CASE c = "0" -> 0 [] c = "1" -> 1 [] c = "2" -> 2 [] c = "3" -> 3
      [] c = "4" -> 4 [] c = "5" -> 5 [] c = "6" -> 6 [] c = "7" -> 7
      [] c = "8" -> 8 [] c = "9" -> 9

\* i64::MAX = 9223372036854775807 and |i64::MIN| = 9223372036854775808.
I64MaxMag ==
    <<"9", "2", "2", "3", "3", "7", "2", "0", "3", "6",
      "8", "5", "4", "7", "7", "5", "8", "0", "7">>
I64MinMag ==
    <<"9", "2", "2", "3", "3", "7", "2", "0", "3", "6",
      "8", "5", "4", "7", "7", "5", "8", "0", "8">>

\* a <= b for magnitudes without leading zeros.
RECURSIVE LexLeq(_, _, _)
LexLeq(a, b, i) ==
    IF i > Len(a) THEN TRUE
    ELSE IF DigitVal(a[i]) < DigitVal(b[i]) THEN TRUE
    ELSE IF DigitVal(a[i]) > DigitVal(b[i]) THEN FALSE
    ELSE LexLeq(a, b, i + 1)

MagLeq(a, b) ==
    \/ Len(a) < Len(b)
    \/ Len(a) = Len(b) /\ LexLeq(a, b, 1)

Zero == <<"0">>

\* acc * 10 + d on magnitudes.
MulAdd(acc, d) == IF acc = Zero THEN <<d>> ELSE Append(acc, d)

\* The checked accumulation over the digits ds[i..]: the final magnitude, or
\* <<>> when a step overflows the limit.
RECURSIVE Accumulate(_, _, _, _)
Accumulate(ds, i, acc, limit) ==
    IF i > Len(ds) THEN acc
    ELSE LET nxt == MulAdd(acc, ds[i]) IN
         IF MagLeq(nxt, limit) THEN Accumulate(ds, i + 1, nxt, limit) ELSE <<>>

\* slice.parse::<i64>(): [ok, neg, mag].
ParseI64(sl) ==
    LET isneg == Len(sl) > 0 /\ sl[1] = "-"
        ds == IF isneg THEN Tail(sl) ELSE sl
        mag == Accumulate(ds, 1, Zero, IF isneg THEN I64MinMag ELSE I64MaxMag)
    IN  IF mag = <<>>
        THEN [ok |-> FALSE, neg |-> FALSE, mag |-> <<>>]
        ELSE [ok |-> TRUE, neg |-> isneg /\ mag # Zero, mag |-> mag]

\* slice.parse::<f64>(): total on the Float pattern (out-of-range literals
\* round to infinity or zero).  The value is kept as its decimal parts; the
\* rounding to binary64 is not modelled.
ParseF64(sl) ==
    LET isneg == Len(sl) > 0 /\ sl[1] = "-"
        e1 == IntMatch(sl, 0)
        e2 == FracEnd(sl, e1)
    IN  [ok |-> TRUE, neg |-> isneg,
         int |-> Slice(sl, IF isneg THEN 1 ELSE 0, e1),
         frac |-> IF e2 > e1 THEN Slice(sl, e1 + 1, e2) ELSE <<>>,
         exp |-> IF Len(sl) > e2 THEN Slice(sl, e2 + 1, Len(sl)) ELSE <<>>]

\* .unwrap() of the parse result r.
IntCallback(r) == [ok |-> r.ok, val |-> [neg |-> r.neg, mag |-> r.mag]]

FloatCallback(r) ==
    [ok |-> r.ok,
     val |-> [neg |-> r.neg, int |-> r.int, frac |-> r.frac, exp |-> r.exp]]

\* The callback of each variant: [ok, val]; ok = FALSE is a failed unwrap().
TokenCallback(tag, sl) ==
    CASE tag = "Int" ->
           IntCallback(ParseI64(sl))
      [] tag = "Float" ->
           FloatCallback(ParseF64(sl))
      [] tag = "Newline" -> [ok |-> TRUE, val |-> LF]
      [] OTHER -> [ok |-> TRUE, val |-> sl]

\* The variants of Token with their match at offset o and their priority.
TokenPatterns(s, o) ==
    { [tag |-> "String", end |-> StringMatch(s, o), prio |-> StringPriority],
      [tag |-> "SingleQuoted", end |-> SingleQuotedMatch(s, o),
       prio |-> SingleQuotedPriority],
      [tag |-> "BareWord", end |-> BareWordMatch(s, o), prio |-> BareWordPriority],
      [tag |-> "Int", end |-> IntMatch(s, o), prio |-> IntPriority],
      [tag |-> "Float", end |-> FloatMatch(s, o), prio |-> FloatPriority],
      [tag |-> "Newline", end |-> NewlineMatch(s, o), prio |-> NewlinePriority] }

(***************************************************************************)
(* The generated lexer: Token::lexer and Lexer::next.  From the current    *)
(* cursor it skips one run of trivia, then takes the longest match among   *)
(* the variants, the higher priority winning on equal length, and runs the *)
(* variant's callback; where no variant matches it yields an error whose   *)
(* span is the unmatched position.                                         *)
(***************************************************************************)
Token_lexer == [token_start |-> 0, token_end |-> 0]

Beats(c, d) == c.end > d.end \/ (c.end = d.end /\ c.prio >= d.prio)

NoToken == [tag |-> "none", val |-> <<>>]

\* The callback has run on the match [p, e) of variant tag.
Emit(tag, p, e, cb) ==
    IF cb.ok
    THEN [kind |-> "Ok", token |-> [tag |-> tag, val |-> cb.val],
          lexer |-> [token_start |-> p, token_end |-> e]]
    ELSE [kind |-> "Panic", token |-> NoToken,
          lexer |-> [token_start |-> p, token_end |-> e]]

Best(cands) == CHOOSE c \in cands : \A d \in cands : Beats(c, d)

Accept(s, p, best) ==
    Emit(best.tag, p, best.end, TokenCallback(best.tag, Slice(s, p, best.end)))

\* The lexer at token start p, trivia skipped, with the matching variants.
LexAt(s, p, cands) ==
    IF p >= Len(s)
    THEN [kind |-> "None", token |-> NoToken,
          lexer |-> [token_start |-> p, token_end |-> p]]
    ELSE IF cands = {}
    THEN [kind |-> "Err", token |-> NoToken,
          lexer |-> [token_start |-> p, token_end |-> p + 1]]
    ELSE Accept(s, p, Best(cands))

Matching(s, p) == {c \in TokenPatterns(s, p) : c.end # NoMatch}

SkipTrivia(s, o, sk) == IF sk = NoMatch THEN o ELSE sk

LexFrom(s, p) == LexAt(s, p, Matching(s, p))

Lexer_next(s, lx) ==
    LexFrom(s, SkipTrivia(s, lx.token_end, SkipMatch(s, lx.token_end)))

\* lexer.span()
Lexer_span(lx) == [start |-> lx.token_start, end |-> lx.token_end]

(***************************************************************************)
(* parse_value: one pull of the lexer, wrapped into Result<Value>.         *)
(***************************************************************************)
UnexpectedMsg == "unexpected token here (context: value)"
EmptyMsg == "EMPTY"

\* WrapValue with the message of the end-of-input arm used for both arms.
WrapValue_sameMsg(n) ==
    CASE n.kind = "Ok" ->
           [out |-> "Ok", ok |-> TRUE, value |-> n.token, msg |-> "",
            span |-> Lexer_span(n.lexer), lexer |-> n.lexer]
      [] n.kind = "Err" ->
           [out |-> "Err", ok |-> FALSE, value |-> NoToken, msg |-> EmptyMsg,
            span |-> Lexer_span(n.lexer), lexer |-> n.lexer]
      [] n.kind = "None" ->
           [out |-> "None", ok |-> FALSE, value |-> NoToken, msg |-> EmptyMsg,
            span |-> Lexer_span(n.lexer), lexer |-> n.lexer]
      [] n.kind = "Panic" ->
           [out |-> "Panic", ok |-> FALSE, value |-> NoToken, msg |-> "",
            span |-> Lexer_span(n.lexer), lexer |-> n.lexer]

\* The match on the Option<Result<Token>> that lexer.next() returned, with
\* the lexer as the pull left it.
WrapValue(n) ==
    CASE n.kind = "Ok" ->
           [out |-> "Ok", ok |-> TRUE, value |-> n.token, msg |-> "",
            span |-> Lexer_span(n.lexer), lexer |-> n.lexer]
      [] n.kind = "Err" ->
           [out |-> "Err", ok |-> FALSE, value |-> NoToken, msg |-> UnexpectedMsg,
            span |-> Lexer_span(n.lexer), lexer |-> n.lexer]
      [] n.kind = "None" ->
           [out |-> "None", ok |-> FALSE, value |-> NoToken, msg |-> EmptyMsg,
            span |-> Lexer_span(n.lexer), lexer |-> n.lexer]
      [] n.kind = "Panic" ->
           [out |-> "Panic", ok |-> FALSE, value |-> NoToken, msg |-> "",
            span |-> Lexer_span(n.lexer), lexer |-> n.lexer]

parse_value(s, lx) == WrapValue(Lexer_next(s, lx))

(***************************************************************************)
(* main: the driver loop.                                                  *)
(***************************************************************************)
\* Report::build(ReportKind::Error, &filename, 12)
ReportOffset == 12

Report(msg, span) ==
    [kind |-> "Error", offset |-> ReportOffset, message |-> "Invalid Lexeme",
     label |-> [span |-> span, msg |-> msg]]

\* main_match with the break of the error arm left out.
main_match_noBreak(r) ==
    IF r.ok
    THEN [pc |-> "Scanning", printed |-> Append(printed, r.value), diag |-> diag]
    ELSE IF r.msg = EmptyMsg
    THEN [pc |-> "Done", printed |-> printed, diag |-> diag]
    ELSE [pc |-> "Scanning", printed |-> printed,
          diag |-> Append(diag, Report(r.msg, r.span))]

\* The match on parse_value's result: what is printed, what is rendered, and
\* whether the loop goes on.
main_match(r) ==
    IF r.ok
    THEN [pc |-> "Scanning", printed |-> Append(printed, r.value), diag |-> diag]
    ELSE IF r.msg = EmptyMsg
    THEN [pc |-> "Done", printed |-> printed, diag |-> diag]
    ELSE [pc |-> "Failed", printed |-> printed,
          diag |-> Append(diag, Report(r.msg, r.span))]

\* One iteration of the loop whose pull returned r and whose match gave m.
Iterate(r, m) ==
    /\ pc' = m.pc
    /\ printed' = m.printed
    /\ diag' = m.diag
    /\ lexer' = r.lexer
    /\ spans' = IF r.ok THEN Append(spans, r.span) ELSE spans
    /\ pulls' = pulls + 1
    /\ lexOut' = r.out
    /\ UNCHANGED <<src, run, firstRun>>

OkArm(r) == r.out = "Ok" /\ Iterate(r, main_match(r))

EmptyArm(r) ==
    r.out \in {"Err", "None"} /\ r.msg = EmptyMsg /\ Iterate(r, main_match(r))

ErrArm(r) ==
    r.out \in {"Err", "None"} /\ r.msg # EmptyMsg /\ Iterate(r, main_match(r))

PanicArm(r) ==
    /\ r.out = "Panic"
    /\ pc' = "Panicked"
    /\ lexer' = r.lexer
    /\ pulls' = pulls + 1
    /\ lexOut' = r.out
    /\ UNCHANGED <<src, printed, spans, diag, run, firstRun>>

\* Ok(value) => println!("{:#?}", value)
PrintValue == pc = "Scanning" /\ OkArm(parse_value(src, lexer))

\* Err((msg, span)) if msg == "EMPTY" => break
BreakOnEmpty == pc = "Scanning" /\ EmptyArm(parse_value(src, lexer))

\* Err((msg, span)) => { Report::build(...)...eprint(...); break }
ReportError == pc = "Scanning" /\ ErrArm(parse_value(src, lexer))

\* The unwrap() of a callback panics inside lexer.next(): the process aborts.
CallbackPanic == pc = "Scanning" /\ PanicArm(parse_value(src, lexer))

Outcome == [pc |-> pc, printed |-> printed, spans |-> spans, diag |-> diag]

\* Rerun with the lexer of the previous run kept.
Rerun_keepLexer ==
    /\ pc # "Scanning"
    /\ run < MaxRuns
    /\ run' = run + 1
    /\ firstRun' = IF firstRun = <<>> THEN <<Outcome>> ELSE firstRun
    /\ lexer' = lexer
    /\ pc' = "Scanning"
    /\ printed' = <<>>
    /\ spans' = <<>>
    /\ diag' = <<>>
    /\ pulls' = 0
    /\ lexOut' = "init"
    /\ UNCHANGED src

\* The program is run again on the same file: main builds a fresh lexer.
Rerun ==
    /\ pc # "Scanning"
    /\ run < MaxRuns
    /\ run' = run + 1
    /\ firstRun' = IF firstRun = <<>> THEN <<Outcome>> ELSE firstRun
    /\ lexer' = Token_lexer
    /\ pc' = "Scanning"
    /\ printed' = <<>>
    /\ spans' = <<>>
    /\ diag' = <<>>
    /\ pulls' = 0
    /\ lexOut' = "init"
    /\ UNCHANGED src

(***************************************************************************)
(* The source texts: every text over Alphabet of at most MaxLen bytes, and *)
(* a corpus of longer ones.                                                *)
(***************************************************************************)
Corpus ==
    { I64MaxMag, I64MinMag, <<"-">> \o I64MinMag, <<"-">> \o I64MaxMag,
      <<"-">> \o I64MinMag \o <<"0">>,
      <<"1", "0", "0", "0", "0", "0", "0", "0", "0", "0",
        "0", "0", "0", "0", "0", "0", "0", "0", "0", "0">>,
      I64MinMag \o <<"@">>,
      <<"1", " ">> \o I64MinMag \o <<" ", "@">>,
      <<"4", "2">>, <<"-", "7">>, <<"3", ".", "1", "4">>,
      <<"1", ".", "0", "e", "-", "1", "0">>, <<"2", "E", "+", "5">>,
      <<DQ, "a", "b", BS, DQ, "c", DQ>>, <<DQ, BS, "n", BS, BS, DQ>>,
      <<DQ, "a", BS, "x", DQ>>,
      <<SQ, "h", "i", SQ>>, <<BT, "r", "a", "w", BT>>,
      <<DQ, "-", "1", ".", "5", DQ>>, <<SQ, "1", "e", "1", SQ>>,
      <<"1", " ", "\t", "\r", "\f", "1">>, <<"1", " ", LF, "\t", SQ, SQ>>,
      <<"1", " ", "1", "\t", "@", " ", "1">> }

Sources == (UNION {[1..n -> Alphabet] : n \in 0..MaxLen}) \cup Corpus

Init ==
    /\ src \in Sources
    /\ lexer = Token_lexer
    /\ pc = "Scanning"
    /\ printed = <<>>
    /\ spans = <<>>
    /\ diag = <<>>
    /\ pulls = 0
    /\ lexOut = "init"
    /\ run = 1
    /\ firstRun = <<>>

Next == PrintValue \/ BreakOnEmpty \/ ReportError \/ CallbackPanic \/ Rerun

Spec == Init /\ [][Next]_vars

(***************************************************************************)
(* The whole scan of a text as a function: the Values main prints, their   *)
(* spans, where the scan ends (Done, Failed, Panicked) and the span the    *)
(* last pull left in the lexer.                                            *)
(***************************************************************************)
RECURSIVE ScanFrom(_, _, _, _)
ScanStep(s, r, vals, sps) ==
    IF r.out = "Ok"
    THEN ScanFrom(s, r.lexer, Append(vals, r.value), Append(sps, r.span))
    ELSE [pc |-> IF r.out = "None" THEN "Done"
                 ELSE IF r.out = "Err" THEN "Failed" ELSE "Panicked",
          printed |-> vals, spans |-> sps, last |-> r.span]

ScanFrom(s, lx, vals, sps) == ScanStep(s, parse_value(s, lx), vals, sps)

Scan(s) == ScanFrom(s, Token_lexer, <<>>, <<>>)

(***************************************************************************)
(* Properties.                                                             *)
(***************************************************************************)
Terminal == pc \in {"Done", "Failed", "Panicked"}

InBounds(sp) == 0 <= sp.start /\ sp.start <= sp.end /\ sp.end <= Len(src)

SpansOrdered ==
    \A i \in 1..Len(spans) :
        /\ spans[i].start < spans[i].end
        /\ i < Len(spans) => spans[i].end <= spans[i + 1].start

\* When the failure is reported, what has been printed is what was scanned
\* before the failing position, in source order.
C1_PrintedBeforeFailure ==
    lexOut = "Err" =>
        /\ Len(diag) = 1
        /\ printed = Scan(src).printed
        /\ spans = Scan(src).spans
        /\ SpansOrdered
        /\ \A i \in 1..Len(spans) : spans[i].end <= diag[1].label.span.start

\* C1: the driver loop stops at the first classification failure.  Within a
\* run, once the lexer has returned a lexical error it is never pulled again,
\* nothing more is printed and nothing more is rendered; at most one
\* diagnostic is rendered per run; and the Values printed when the failure is
\* reported are exactly the tokens recognized before it, in source order.
C1_StopsAtFirstError ==
    /\ [](Len(diag) <= 1 /\ C1_PrintedBeforeFailure)
    /\ [][lexOut = "Err" /\ run' = run =>
            UNCHANGED <<lexer, pulls, printed, spans, diag, lexOut>>]_vars

C1_Witness ==
    /\ pc = "Failed"
    /\ lexOut = "Err"
    /\ Len(printed) >= 2
    /\ Len(diag) = 1

\* C2: end-of-input is never reported as a lexical error and a lexical error
\* is never taken for end-of-input: a diagnostic has been rendered exactly
\* when the lexer returned a classification failure, the run is in Done
\* exactly when the lexer returned end-of-input, Done carries no diagnostic,
\* and no diagnostic carries the "EMPTY" message.
C2_ErrorIsNotEof ==
    /\ (diag # <<>>) <=> (lexOut = "Err")
    /\ (pc = "Failed") <=> (lexOut = "Err")
    /\ (pc = "Done") <=> (lexOut = "None")
    /\ pc = "Done" => diag = <<>> /\ lexer.token_start = Len(src)
    /\ \A i \in 1..Len(diag) : diag[i].label.msg # EmptyMsg

C2_Witness ==
    /\ pc = "Failed"
    /\ lexOut = "Err"
    /\ Len(diag) = 1
    /\ diag[1].label.msg = UnexpectedMsg
    /\ printed # <<>>

(***************************************************************************)
(* The shapes of literals, as the claims state them.                       *)
(***************************************************************************)
AllDigits(s) == \A i \in 1..Len(s) : s[i] \in Digits

\* '0', or a non-zero digit followed by digits.
IsNatural(s) ==
    /\ Len(s) >= 1
    /\ AllDigits(s)
    /\ s[1] = "0" => Len(s) = 1

Unsigned(s) == IF Len(s) > 0 /\ s[1] = "-" THEN Tail(s) ELSE s

IsIntLiteral(s) == IsNatural(Unsigned(s))

\* The integer an integer literal denotes.
Denotes(s) ==
    [neg |-> s[1] = "-" /\ Unsigned(s) # Zero, mag |-> Unsigned(s)]

IsFraction(s) == Len(s) >= 2 /\ s[1] = "." /\ AllDigits(Tail(s))

IsExponent(s) ==
    /\ Len(s) >= 2
    /\ s[1] \in {"e", "E"}
    /\ \/ AllDigits(Tail(s))
       \/ Len(s) >= 3 /\ s[2] \in {"+", "-"} /\ AllDigits(Tail(Tail(s)))

\* An integer literal followed by a fraction, an exponent, or both.
IsFloatLiteral(s) ==
    \E i \in 1..Len(s) : \E j \in i..Len(s) :
        /\ IsIntLiteral(SubSeq(s, 1, i))
        /\ j > i => IsFraction(SubSeq(s, i + 1, j))
        /\ Len(s) > j => IsExponent(SubSeq(s, j + 1, Len(s)))
        /\ Len(s) > i

\* C3: for an input that is exactly one well-formed integer literal, of any
\* length, the scan ends in Done having yielded exactly one Int token whose
\* value is the integer the literal denotes; the Int callback never fails.
C3_IntLiteralExact ==
    IsIntLiteral(src) /\ Terminal =>
        /\ pc = "Done"
        /\ printed = <<[tag |-> "Int", val |-> Denotes(src)]>>

\* C3 for the literals within the i64 range.
InI64(s) ==
    MagLeq(Unsigned(s), IF s[1] = "-" THEN I64MinMag ELSE I64MaxMag)

C3_InRangeExact ==
    IsIntLiteral(src) /\ InI64(src) /\ Terminal =>
        /\ pc = "Done"
        /\ printed = <<[tag |-> "Int", val |-> Denotes(src)]>>

\* C4: for an input that is exactly one numeric literal, the scan yields
\* exactly one token, tagged Int when the literal has neither fraction nor
\* exponent and Float when it has a fraction and/or an exponent.
C4_NumericTag ==
    (IsIntLiteral(src) \/ IsFloatLiteral(src)) /\ Terminal =>
        /\ pc = "Done"
        /\ Len(printed) = 1
        /\ printed[1].tag = IF IsIntLiteral(src) THEN "Int" ELSE "Float"
        /\ spans = <<[start |-> 0, end |-> Len(src)]>>

C4_NoPanicNumericTag ==
    (IsIntLiteral(src) \/ IsFloatLiteral(src)) /\ pc \in {"Done", "Failed"} =>
        /\ pc = "Done"
        /\ Len(printed) = 1
        /\ printed[1].tag = IF IsIntLiteral(src) THEN "Int" ELSE "Float"
        /\ spans = <<[start |-> 0, end |-> Len(src)]>>

(***************************************************************************)
(* The first unmatched position of a text: the text is cut, from the left, *)
(* into longest matches of the patterns (the skip pattern included), and   *)
(* the first offset at which no pattern matches is returned, NoMatch when  *)
(* there is none.                                                          *)
(***************************************************************************)
Max2(a, b) == IF a >= b THEN a ELSE b

LongestAt(s, o) ==
    Max2(SkipMatch(s, o),
     Max2(StringMatch(s, o),
      Max2(SingleQuotedMatch(s, o),
       Max2(BareWordMatch(s, o),
        Max2(IntMatch(s, o), Max2(FloatMatch(s, o), NewlineMatch(s, o)))))))

RECURSIVE FirstUnmatched(_, _)
CutAt(s, o, e) == IF e = NoMatch THEN o ELSE FirstUnmatched(s, e)

FirstUnmatched(s, o) ==
    IF o >= Len(s) THEN NoMatch ELSE CutAt(s, o, LongestAt(s, o))

\* The spans of the tokens (not the trivia) cut before offset k.
RECURSIVE TokenSpansBefore(_, _, _)
TokenSpansBefore(s, o, k) ==
    IF o >= k THEN <<>>
    ELSE IF SkipMatch(s, o) # NoMatch THEN TokenSpansBefore(s, SkipMatch(s, o), k)
    ELSE <<[start |-> o, end |-> LongestAt(s, o)]>>
         \o TokenSpansBefore(s, LongestAt(s, o), k)

\* C5: when the first unmatched position of the source is offset k, the scan
\* stops there: the run ends in Failed, the span of the error parse_value
\* returns, which main attaches to the label of the diagnostic, starts at k,
\* and every token lying before k has been emitted.
C5_StopsAtUnmatched ==
    FirstUnmatched(src, 0) # NoMatch /\ Terminal =>
        /\ pc = "Failed"
        /\ Len(diag) = 1
        /\ diag[1].label.span.start = FirstUnmatched(src, 0)
        /\ lexer.token_start = FirstUnmatched(src, 0)
        /\ spans = TokenSpansBefore(src, 0, FirstUnmatched(src, 0))

C5_NoPanicStopsAtUnmatched ==
    FirstUnmatched(src, 0) # NoMatch /\ pc \in {"Done", "Failed"} =>
        /\ pc = "Failed"
        /\ Len(diag) = 1
        /\ diag[1].label.span.start = FirstUnmatched(src, 0)
        /\ lexer.token_start = FirstUnmatched(src, 0)
        /\ spans = TokenSpansBefore(src, 0, FirstUnmatched(src, 0))

\* C6: every span the program associates with a Token or a Diagnostic, and
\* every location main hands to the diagnostic renderer (the offset of the
\* report and the span of its label), lies within the source:
\* 0 <= start <= end <= Len(src).
C6_SpansInSource ==
    /\ \A i \in 1..Len(spans) : InBounds(spans[i])
    /\ InBounds(Lexer_span(lexer))
    /\ \A i \in 1..Len(diag) :
        /\ InBounds(diag[i].label.span)
        /\ 0 <= diag[i].offset /\ diag[i].offset <= Len(src)

\* C6 without the offset of the report.
C6_TokenAndLabelSpansInSource ==
    /\ \A i \in 1..Len(spans) : InBounds(spans[i])
    /\ InBounds(Lexer_span(lexer))
    /\ \A i \in 1..Len(diag) : InBounds(diag[i].label.span)

\* The source buffer is never written.
SourceUnchanged == [][src' = src]_vars

(***************************************************************************)
(* Whitespace runs.                                                        *)
(***************************************************************************)
\* Space, tab, carriage return, form feed.
Blank == {" ", "\t", "\r", "\f"}

NewlineValue == [tag |-> "Newline", val |-> LF]

\* One Newline Value for every line feed of s.
RECURSIVE NewlinesOf(_)
NewlinesOf(s) ==
    IF s = <<>> THEN <<>>
    ELSE (IF Head(s) = LF THEN <<NewlineValue>> ELSE <<>>) \o NewlinesOf(Tail(s))

OnlyOf(s, class) == \A i \in 1..Len(s) : s[i] \in class

\* The source is a ++ run ++ b, where a scans to its end on its own and run
\* is made of blanks and line feeds: what was scanned is what a gives, then
\* one Newline per line feed of run, then what b gives on its own.
SplitAgrees(a, w, b) ==
    OnlyOf(w, Blank \cup {LF}) /\ Scan(a).pc = "Done" =>
        /\ printed = Scan(a).printed \o NewlinesOf(w) \o Scan(b).printed
        /\ pc = Scan(b).pc

\* C7: a non-empty run of space, tab, carriage return and form feed between
\* two tokens yields no token and no error, so the tokens emitted do not
\* depend on the length or the composition of the run; a line feed is not
\* part of the run and is emitted as a Newline token of its own.
C7_BlankRunsSkipped ==
    /\ \A i \in 1..Len(spans) - 1 :
           OnlyOf(Slice(src, spans[i].end, spans[i + 1].start), Blank)
    /\ Terminal =>
         \A i \in 0..Len(src) : \A j \in (i + 1)..Len(src) :
             SplitAgrees(Slice(src, 0, i), Slice(src, i, j), Slice(src, j, Len(src)))

C7_Witness ==
    /\ pc = "Done"
    /\ Len(spans) = 2
    /\ spans[2].start - spans[1].end >= 3
    /\ "\t" \in {src[i] : i \in 1..Len(src)}
    /\ "\f" \in {src[i] : i \in 1..Len(src)}

(***************************************************************************)
(* Quoted forms.                                                           *)
(***************************************************************************)
QuoteEscapes == {DQ, BS, "b", "n", "f", "r", "t"}

\* s[i..] is made of bytes other than the quote and the backslash, and of
\* backslashes followed by an allowed escape character.
RECURSIVE WellEscaped(_, _)
WellEscaped(s, i) ==
    IF i > Len(s) THEN TRUE
    ELSE IF s[i] = DQ THEN FALSE
    ELSE IF s[i] = BS
         THEN i < Len(s) /\ s[i + 1] \in QuoteEscapes /\ WellEscaped(s, i + 2)
         ELSE WellEscaped(s, i + 1)

Inner(s) == SubSeq(s, 2, Len(s) - 1)

Delimited(s, q) == Len(s) >= 2 /\ s[1] = q /\ s[Len(s)] = q

IsDoubleQuoted(s) == Delimited(s, DQ) /\ WellEscaped(Inner(s), 1)

IsSingleQuoted(s) == Delimited(s, SQ) /\ \A i \in 1..Len(Inner(s)) : Inner(s)[i] # SQ

IsBackticked(s) == Delimited(s, BT) /\ \A i \in 1..Len(Inner(s)) : Inner(s)[i] # BT

QuotedTag(s) ==
    IF s[1] = DQ THEN "String" ELSE IF s[1] = SQ THEN "SingleQuoted" ELSE "BareWord"

\* C8: an input that is exactly one well-formed quoted form yields exactly
\* one token of the matching tag whose slice is the whole input, then
\* end-of-input; a quoted numeral yields no Int and no Float.
C8_QuotedVerbatim ==
    (IsDoubleQuoted(src) \/ IsSingleQuoted(src) \/ IsBackticked(src)) /\ Terminal =>
        /\ pc = "Done"
        /\ printed = <<[tag |-> QuotedTag(src), val |-> src]>>
        /\ spans = <<[start |-> 0, end |-> Len(src)]>>

C8_Witness ==
    /\ pc = "Done"
    /\ IsDoubleQuoted(src)
    /\ Len(src) >= 4
    /\ FloatMatch(src, 1) = Len(src) - 1
    /\ printed = <<[tag |-> "String", val |-> src]>>

(***************************************************************************)
(* Runs and termination.                                                   *)
(***************************************************************************)
IsPrefix(a, b) == Len(a) <= Len(b) /\ a = SubSeq(b, 1, Len(a))

C10_EndsDoneOrFailed ==
    /\ pulls <= Len(src) + 1
    /\ lexer.token_start <= lexer.token_end /\ lexer.token_end <= Len(src)
    /\ \A i \in 1..Len(spans) : spans[i].start < spans[i].end
    /\ pc # "Scanning" => pc \in {"Done", "Failed"}

\* C10 without the final state.
C10_Progress ==
    /\ pulls <= Len(src) + 1
    /\ lexer.token_start <= lexer.token_end /\ lexer.token_end <= Len(src)
    /\ \A i \in 1..Len(spans) : spans[i].start < spans[i].end

\* The cursor never moves backwards within a run.
CursorMonotonic ==
    [][run' = run => lexer'.token_end >= lexer.token_end]_vars

====
